---- MODULE Spec2Model ----
(***************************************************************************)
(* Model of tools/extract_resume.py: the heuristic resume parser.          *)
(*                                                                         *)
(* A Python str is modelled as a sequence of atoms.  An atom is a short    *)
(* piece of text that every regular expression of the program treats as a  *)
(* unit: a blank, a punctuation character, a bullet glyph, or a run of     *)
(* alphanumeric characters (a word, a month name, a four digit year, a     *)
(* digit group).  A list of lines is a sequence of such sequences.         *)
(***************************************************************************)
EXTENDS Integers, Sequences, FiniteSets, TLC

VARIABLES
    pc,             \* position of the function under analysis
    i,              \* index of the next element of the running for/while loop
    lines,          \* the lines argument of the function under analysis
    header,         \* slice_section: the header argument
    result,         \* slice_section: the returned slice
    out,            \* preprocess_lines: output of the first loop
    out2,           \* preprocess_lines: output of the second loop
    raw,            \* main: the text extracted from the document
    text,           \* main: the text handed to build_structured
    sec,            \* parse_projects: the Projects section lines
    cur,            \* parse_projects: the open entry, None or Some(entry)
    pending_title,  \* parse_projects: the held title, None or Some(line)
    projects,       \* parse_projects: the entries pushed so far
    contact,        \* parse_contact_line: the contact dict
    grabbed,        \* parse_skills: the five grab() results
    skills,         \* parse_skills: the returned dict
    merged,         \* parse_education: school lines merged with locations
    items           \* parse_education: the entries built so far

sliceVars == <<header, result>>
preVars == <<out, out2>>
mainVars == <<raw, text>>
projVars == <<sec, cur, pending_title, projects>>
contactVars == <<contact>>
skillVars == <<grabbed, skills>>
eduVars == <<merged, items>>

vars == <<pc, i, lines, sliceVars, preVars, mainVars, projVars, contactVars,
          skillVars, eduVars>>

----------------------------------------------------------------------------
(* Bounds *)

MaxSec == 3         \* longest Projects section explored
MaxRaw == 2         \* most raw lines handed to preprocess_lines
MaxText == 2        \* most lines after the PROJECTS header in the raw text
MaxLines == 3       \* most lines handed to slice_section
MaxSegs == 4        \* most pipe-delimited segments of the contact line
MaxSkillLines == 3  \* most lines in the Skills section
MaxEduLines == 4    \* most lines in the Education section

----------------------------------------------------------------------------
(* Atoms *)

Bullet == "BLACKSQ"       \* U+25A0, the canonical bullet marker
EnDash == "ENDASH"        \* U+2013
EmDash == "EMDASH"        \* U+2014
DotGlyph == "BULLETDOT"   \* U+2022
NL == "\n"

Whitespace == {" ", NL}

Months == {"July", "Aug", "May"}
Years == {"2024", "2025", "2026"}

None == <<>>
Some(x) == <<x>>
Val(o) == o[1]

\* Variables of the functions that are not under analysis stay empty.
SliceIdle == header = <<>> /\ result = <<>>
PreIdle == out = <<>> /\ out2 = <<>>
MainIdle == raw = <<>> /\ text = <<>>
ProjIdle == sec = <<>> /\ cur = None /\ pending_title = None /\ projects = <<>>
ContactIdle == contact = <<>>
SkillIdle == grabbed = <<>> /\ skills = <<>>
EduIdle == merged = <<>> /\ items = <<>>

\* All sequences over S of length at most n.
SeqUpTo(S, n) == UNION {[1..k -> S] : k \in 0..n}

RECURSIVE LStrip(_, _)
LStrip(s, chars) ==
    IF s # <<>> /\ Head(s) \in chars THEN LStrip(Tail(s), chars) ELSE s

RECURSIVE RStrip(_, _)
RStrip(s, chars) ==
    IF s # <<>> /\ s[Len(s)] \in chars
    THEN RStrip(SubSeq(s, 1, Len(s) - 1), chars) ELSE s

StripChars(s, chars) == RStrip(LStrip(s, chars), chars)

strip(s) == StripChars(s, Whitespace)

RECURSIVE SquashWs(_)
SquashWs(s) ==
    IF s = <<>> THEN <<>>
    ELSE IF Head(s) \in Whitespace
         THEN <<" ">> \o SquashWs(LStrip(s, Whitespace))
         ELSE <<Head(s)>> \o SquashWs(Tail(s))

collapse_ws(s) == strip(SquashWs(s))

\* Index of the first atom at or after k that is not whitespace.
RECURSIVE SkipWs(_, _)
SkipWs(s, k) ==
    IF k <= Len(s) /\ s[k] \in Whitespace THEN SkipWs(s, k + 1) ELSE k

----------------------------------------------------------------------------
(* DATE_RANGE_RE, MONTH_YEAR_RE, BULLET_RE *)

DateDashes == {"-", EnDash}

\* The rest of DATE_RANGE_RE after its first month, one token per operator:
\* each takes the index of the first atom after the blanks that follow the
\* previous token and gives the last index of the match, 0 when none.
DateYear2At(s, k) == IF k <= Len(s) /\ s[k] \in Years THEN k ELSE 0

DateMonth2At(s, k) ==
    IF k <= Len(s) /\ s[k] \in Months THEN DateYear2At(s, SkipWs(s, k + 1)) ELSE 0

DateDashAt(s, k) ==
    IF k <= Len(s) /\ s[k] \in DateDashes THEN DateMonth2At(s, SkipWs(s, k + 1)) ELSE 0

DateYear1At(s, k) ==
    IF k <= Len(s) /\ s[k] \in Years THEN DateDashAt(s, SkipWs(s, k + 1)) ELSE 0

\* Last index of a DATE_RANGE_RE match that starts at k, 0 when none.
DateRangeEndAt(s, k) ==
    IF k >= 1 /\ k <= Len(s) /\ s[k] \in Months
    THEN DateYear1At(s, SkipWs(s, k + 1)) ELSE 0

\* DATE_RANGE_RE.search: <<first, last>> of the leftmost match, None when none.
RECURSIVE DateSearchFrom(_, _)
DateSearchFrom(s, k) ==
    IF k > Len(s) THEN None
    ELSE IF DateRangeEndAt(s, k) # 0 THEN <<k, DateRangeEndAt(s, k)>>
    ELSE DateSearchFrom(s, k + 1)

DATE_RANGE_RE_search(s) == DateSearchFrom(s, 1)

DATE_RANGE_RE_fullmatch(s) == s # <<>> /\ DateRangeEndAt(s, 1) = Len(s)

MONTH_YEAR_RE_match(s) ==
    /\ s # <<>> /\ s[1] \in Months
    /\ SkipWs(s, 2) <= Len(s) /\ s[SkipWs(s, 2)] \in Years

\* re.search(r"\d{4}.*[-<endash>].*\d{4}", line)
YearDashYear(s) ==
    \E a, b, c \in 1..Len(s) :
        a < b /\ b < c /\ s[a] \in Years /\ s[b] \in DateDashes /\ s[c] \in Years

BulletMarks == {Bullet, "-", "*"}

\* BULLET_RE.match: Some(group 1) or None.
BULLET_RE_match(s) ==
    IF s # <<>> /\ s[1] \in BulletMarks /\ SkipWs(s, 2) <= Len(s)
    THEN Some(SubSeq(s, SkipWs(s, 2), Len(s)))
    ELSE None

----------------------------------------------------------------------------
(* Character classes, case mapping, splitting and joining *)

BulletGlyphs == {DotGlyph, "MEDSQ", "MEDSMALLSQ", "SMALLSQ", "CIRCLE", EnDash, EmDash}

Brackets == {"(", ")", "[", "]", "{", "}"}

PunctAtoms ==
    {"-", "*", "|", ":", ",", ";", "&", "/", "@", ".", "+", "_", "%", Bullet}
        \cup BulletGlyphs \cup Brackets

\* \w: the atom is a run of alphanumeric characters.
IsWord(a) == a \notin (Whitespace \cup PunctAtoms)

\* str.upper() of one atom.
Upper(a) ==
    CASE a \in {"Summary", "summary"} -> "SUMMARY"
      [] a \in {"Education"} -> "EDUCATION"
      [] a \in {"Projects", "projects"} -> "PROJECTS"
      [] a \in {"Technical", "technical"} -> "TECHNICAL"
      [] a \in {"Skills", "skills"} -> "SKILLS"
      [] a = "my" -> "MY"
      [] a = "Awards" -> "AWARDS"
      [] a = "x" -> "X"
      [] a = "y" -> "Y"
      [] a = "a" -> "A"
      [] a = "b" -> "B"
      [] OTHER -> a

\* str.lower() of one atom.
Lower(a) ==
    CASE a \in {"Python", "PYTHON"} -> "python"
      [] a \in {"Go", "GO"} -> "go"
      [] a \in {"Redis", "REDIS"} -> "redis"
      [] a \in {"AWS", "Aws"} -> "aws"
      [] a \in {"Git", "GIT"} -> "git"
      [] a \in {"React"} -> "react"
      [] a \in {"Languages", "LANGUAGES"} -> "languages"
      [] a \in {"LinkedIn"} -> "linkedin"
      [] a \in {"GitHub"} -> "github"
      [] a \in {"HTTPS"} -> "https"
      [] a \in {"Frameworks"} -> "frameworks"
      [] a \in {"Libraries"} -> "libraries"
      [] a \in {"Databases"} -> "databases"
      [] a \in {"Cloud"} -> "cloud"
      [] a \in {"DevOps"} -> "devops"
      [] a \in {"Tools", "TOOLS"} -> "tools"
      [] a \in {"Testing"} -> "testing"
      [] OTHER -> a

UpperStr(s) == [k \in 1..Len(s) |-> Upper(s[k])]
LowerStr(s) == [k \in 1..Len(s) |-> Lower(s[k])]

\* str.split(sep) for a one-atom separator: at least one part.
RECURSIVE SplitAcc(_, _, _)
SplitAcc(s, seps, part) ==
    IF s = <<>> THEN <<part>>
    ELSE IF Head(s) \in seps THEN <<part>> \o SplitAcc(Tail(s), seps, <<>>)
    ELSE SplitAcc(Tail(s), seps, Append(part, Head(s)))

Split(s, seps) == SplitAcc(s, seps, <<>>)

\* sep.join(parts)
RECURSIVE Join(_, _)
Join(parts, sep) ==
    IF parts = <<>> THEN <<>>
    ELSE IF Len(parts) = 1 THEN parts[1]
    ELSE parts[1] \o sep \o Join(Tail(parts), sep)

\* [p.strip() for p in parts if p.strip()]
RECURSIVE StripNonEmpty(_)
StripNonEmpty(parts) ==
    IF parts = <<>> THEN <<>>
    ELSE IF strip(Head(parts)) # <<>>
         THEN <<strip(Head(parts))>> \o StripNonEmpty(Tail(parts))
         ELSE StripNonEmpty(Tail(parts))

\* norm_key: upper-case, then drop every non-alphanumeric character.
RECURSIVE norm_key(_)
norm_key(s) ==
    IF s = <<>> THEN <<>>
    ELSE IF IsWord(Head(s)) THEN <<Upper(Head(s))>> \o norm_key(Tail(s))
    ELSE norm_key(Tail(s))

----------------------------------------------------------------------------
(* Preprocess lines *)

SECTION_HEADERS ==
    << <<"SUMMARY">>, <<"EDUCATION">>, <<"EXPERIENCE">>, <<"PROJECTS">>,
       <<"TECHNICAL", " ", "SKILLS">>, <<"SKILLS">> >>

Range(f) == {f[k] : k \in DOMAIN f}

SECTION_KEYS == {norm_key(h) : h \in Range(SECTION_HEADERS)}

\* Last index of a HEADERS_SPLIT_RE match starting at k, 0 when none.
HeaderEndAt(s, k) ==
    LET u == Upper(s[k])
        e == IF u = "TECHNICAL"
             THEN IF k + 1 <= Len(s) /\ s[k + 1] \in Whitespace
                     /\ SkipWs(s, k + 1) <= Len(s)
                     /\ Upper(s[SkipWs(s, k + 1)]) = "SKILLS"
                  THEN SkipWs(s, k + 1) ELSE 0
             ELSE IF u \in {"SUMMARY", "EDUCATION", "EXPERIENCE", "PROJECTS", "SKILLS"}
                  THEN k ELSE 0
    IN  IF /\ e # 0
           /\ (k = 1 \/ ~IsWord(s[k - 1]))
           /\ (e = Len(s) \/ ~IsWord(s[e + 1]))
        THEN e ELSE 0

\* HEADERS_SPLIT_RE.search: <<first, last>> of the leftmost match, or None.
HEADERS_SPLIT_RE_search(s) ==
    LET starts == {k \in 1..Len(s) : HeaderEndAt(s, k) # 0}
    IN  IF starts = {} THEN None
        ELSE LET k == CHOOSE k \in starts : \A j \in starts : k <= j
             IN  <<k, HeaderEndAt(s, k)>>

PUNCT_ONLY_RE_match(s) == s # <<>> /\ \A k \in 1..Len(s) : s[k] \in Brackets

\* str.replace("  ", " ")
RECURSIVE ReplaceTwoBlanks(_)
ReplaceTwoBlanks(s) ==
    IF Len(s) >= 2 /\ s[1] = " " /\ s[2] = " "
    THEN <<" ">> \o ReplaceTwoBlanks(SubSeq(s, 3, Len(s)))
    ELSE IF s = <<>> THEN <<>>
    ELSE <<Head(s)>> \o ReplaceTwoBlanks(Tail(s))

IsHeaderText(ln) == UpperStr(strip(ln)) \in Range(SECTION_HEADERS)

RECURSIVE BulletLines(_)
BulletLines(parts) ==
    IF parts = <<>> THEN <<>>
    ELSE IF Head(parts) # <<>>
         THEN << <<Bullet, " ">> \o Head(parts) >> \o BulletLines(Tail(parts))
         ELSE BulletLines(Tail(parts))

\* Which branch of the first loop of preprocess_lines the raw line takes.
PreBranch(ln0) ==
    LET ln == collapse_ws(ln0)
    IN  IF ln = <<>> \/ PUNCT_ONLY_RE_match(ln) THEN "skip"
        ELSE IF (\E k \in 1..Len(ln) : ln[k] = Bullet) /\ ~IsHeaderText(ln)
             THEN "bullets"
        ELSE IF HEADERS_SPLIT_RE_search(ln) # None /\ ~IsHeaderText(ln)
             THEN "header"
        ELSE "keep"

\* The lines one raw line contributes to out in the first loop.
PreSplit(ln0) ==
    LET ln == collapse_ws(ln0)
        br == PreBranch(ln0)
    IN  CASE br = "skip" -> <<>>
          [] br = "bullets" ->
               LET pieces == Split(ln, {Bullet})
                   parts == [k \in 1..Len(pieces) |-> strip(pieces[k])]
               IN  (IF parts[1] # <<>> THEN <<parts[1]>> ELSE <<>>)
                      \o BulletLines(Tail(parts))
          [] br = "header" ->
               LET m == HEADERS_SPLIT_RE_search(ln)
                   hdr == SubSeq(ln, m[1], m[2])
                   before == strip(SubSeq(ln, 1, m[1] - 1))
                   after == strip(SubSeq(ln, m[2] + 1, Len(ln)))
               IN  (IF before # <<>> THEN <<before>> ELSE <<>>)
                      \o <<ReplaceTwoBlanks(UpperStr(hdr))>>
                      \o (IF after # <<>> THEN <<after>> ELSE <<>>)
          [] OTHER -> <<ln>>

\* The second loop: drop empty and bracket-only lines and adjacent repeats.
RECURSIVE PreCleanup(_, _)
PreCleanup(o, prev) ==
    IF o = <<>> THEN <<>>
    ELSE LET x == collapse_ws(Head(o))
         IN  IF x = <<>> \/ PUNCT_ONLY_RE_match(x) THEN PreCleanup(Tail(o), prev)
             ELSE IF prev = Some(x) THEN PreCleanup(Tail(o), prev)
             ELSE <<x>> \o PreCleanup(Tail(o), Some(x))

RECURSIVE PreFirstLoop(_)
PreFirstLoop(ls) ==
    IF ls = <<>> THEN <<>> ELSE PreSplit(Head(ls)) \o PreFirstLoop(Tail(ls))

preprocess_lines(ls) == PreCleanup(PreFirstLoop(ls), None)

----------------------------------------------------------------------------
(* Projects *)

TitleStripChars == {" ", "-", EnDash, EmDash, "|"}

extract_time_and_title(line) ==
    LET m == DATE_RANGE_RE_search(line)
    IN  IF m = None THEN None
        ELSE Some([title |-> StripChars(SubSeq(line, 1, m[1] - 1), TitleStripChars),
                   time  |-> strip(SubSeq(line, m[1], m[2]))])

is_time_only_line(line0) ==
    LET line == strip(line0)
    IN  \/ DATE_RANGE_RE_fullmatch(line)
        \/ MONTH_YEAR_RE_match(line) /\ YearDashYear(line)

\* The comprehension of push(): bullets collapsed, empty ones dropped.
RECURSIVE CleanBullets(_)
CleanBullets(bs) ==
    IF bs = <<>> THEN <<>>
    ELSE IF collapse_ws(Head(bs)) # <<>>
         THEN <<collapse_ws(Head(bs))>> \o CleanBullets(Tail(bs))
         ELSE CleanBullets(Tail(bs))

\* A faulty variant of push() without its two guards.
pushMissingGuards(ps, c) ==
    LET e == IF c = None THEN [title |-> <<>>, time |-> <<>>, bullets |-> <<>>]
             ELSE [Val(c) EXCEPT !.bullets = CleanBullets(@)]
    IN  Append(ps, e)

\* push(): the projects list after flushing entry c (cur becomes None).
push(ps, c) ==
    IF c = None THEN ps
    ELSE LET e == [Val(c) EXCEPT !.bullets = CleanBullets(@)]
         IN  IF e.title # <<>> \/ e.time # <<>> \/ e.bullets # <<>>
             THEN Append(ps, e) ELSE ps

Truthy(o) == o # None /\ Val(o) # <<>>

\* A faulty variant: the title is held whether or not an entry is open.
ProjBranchHoldAnyTime(c, pt, ln0) ==
    LET ln == strip(ln0)
    IN  IF extract_time_and_title(ln) # None THEN "date"
        ELSE IF ~(ln # <<>> /\ ln[1] = Bullet) /\ ~is_time_only_line(ln)
             THEN "hold"
        ELSE IF c = None /\ Truthy(pt) /\ is_time_only_line(ln) THEN "pending_time"
        ELSE IF BULLET_RE_match(ln) # None /\ c # None THEN "bullet"
        ELSE "wrap"

\* Which branch of the loop body of parse_projects line ln takes.
ProjBranch(c, pt, ln0) ==
    LET ln == strip(ln0)
    IN  IF extract_time_and_title(ln) # None THEN "date"
        ELSE IF c = None /\ ~(ln # <<>> /\ ln[1] = Bullet) /\ ~is_time_only_line(ln)
             THEN "hold"
        ELSE IF c = None /\ Truthy(pt) /\ is_time_only_line(ln) THEN "pending_time"
        ELSE IF BULLET_RE_match(ln) # None /\ c # None THEN "bullet"
        ELSE "wrap"

\* cur["bullets"].append(bm.group(1).strip())
append_bullet(c, txt) ==
    Some([Val(c) EXCEPT !.bullets = Append(@, strip(txt))])

\* The continuation branch: extend the last bullet, or seed the first one.
wrap_line(c, ln) ==
    LET bs == Val(c).bullets
    IN  IF bs # <<>>
        THEN Some([Val(c) EXCEPT !.bullets =
                     [bs EXCEPT ![Len(bs)] = strip(bs[Len(bs)] \o <<" ">> \o ln)]])
        ELSE Some([Val(c) EXCEPT !.bullets = <<ln>>])

\* One iteration of the for loop of parse_projects.
ProjStep(st, ln0) ==
    LET ln == strip(ln0)
        br == ProjBranch(st.cur, st.pending_title, ln0)
        tt == extract_time_and_title(ln)
    IN  CASE br = "date" ->
               [projects |-> push(st.projects, st.cur),
                cur |-> Some([title |-> Val(tt).title, time |-> Val(tt).time,
                              bullets |-> <<>>]),
                pending_title |-> None]
          [] br = "hold" ->
               [st EXCEPT !.pending_title = Some(ln)]
          [] br = "pending_time" ->
               [projects |-> push(st.projects, st.cur),
                cur |-> Some([title |-> Val(st.pending_title), time |-> ln,
                              bullets |-> <<>>]),
                pending_title |-> None]
          [] br = "bullet" ->
               [st EXCEPT !.cur = append_bullet(st.cur, Val(BULLET_RE_match(ln)))]
          [] OTHER ->
               [projects |-> st.projects,
                cur |-> IF st.cur = None THEN None ELSE wrap_line(st.cur, ln),
                pending_title |->
                    IF st.cur = None /\ Truthy(st.pending_title)
                       /\ ~is_time_only_line(ln)
                    THEN None ELSE st.pending_title]

\* Lines a Projects section is built from.
FoodApp == <<"Food", " ", "App">>
DateHyphen == <<"July", " ", "2024", "-", "Aug", " ", "2024">>
DateSpaced == <<"July", " ", "2024", " ", "-", " ", "Aug", " ", "2024">>
DateEnDash == <<"July", " ", "2024", " ", EnDash, " ", "Aug", " ", "2024">>
DateEmDash == <<"July", " ", "2024", " ", EmDash, " ", "Aug", " ", "2024">>
DateLoose == <<"May", " ", "2025", " ", "-", " ", "2026">>

ProjLines ==
    { FoodApp \o <<" ">> \o DateHyphen,
      FoodApp \o <<" ">> \o DateEnDash,
      FoodApp \o <<" ">> \o DateEmDash,
      FoodApp,
      DateSpaced,
      DateLoose,
      <<Bullet, " ", "built", " ", "a", " ", "thing">>,
      <<Bullet, " ", "worked", " ">> \o DateHyphen,
      <<"continued", " ", "description">>,
      <<"-", " ", "item">>,
      <<"*">> }

InitProjects ==
    /\ pc = "loop"
    /\ sec \in SeqUpTo(ProjLines, MaxSec)
    /\ i = 1
    /\ cur = None
    /\ pending_title = None
    /\ projects = <<>>
    /\ lines = <<>>
    /\ SliceIdle /\ PreIdle /\ MainIdle /\ ContactIdle /\ SkillIdle /\ EduIdle

NotProjVars == <<lines, sliceVars, preVars, mainVars, contactVars, skillVars, eduVars>>

\* if not sec: return []
ParseProjectsNoSection ==
    /\ pc = "loop" /\ sec = <<>>
    /\ pc' = "done"
    /\ UNCHANGED <<i, projVars, NotProjVars>>

InLoop == pc = "loop" /\ sec # <<>> /\ i <= Len(sec)

\* The line contains a date range: push, open a new entry.
ParseProjectsDateLine ==
    /\ InLoop /\ ProjBranch(cur, pending_title, sec[i]) = "date"
    /\ projects' = push(projects, cur)
    /\ cur' = Some([title |-> Val(extract_time_and_title(strip(sec[i]))).title,
                    time |-> Val(extract_time_and_title(strip(sec[i]))).time,
                    bullets |-> <<>>])
    /\ pending_title' = None
    /\ i' = i + 1
    /\ UNCHANGED <<pc, sec, NotProjVars>>

\* No entry open, no marker, no time: hold the line as pending title.
ParseProjectsHoldTitle ==
    /\ InLoop /\ ProjBranch(cur, pending_title, sec[i]) = "hold"
    /\ pending_title' = Some(strip(sec[i]))
    /\ i' = i + 1
    /\ UNCHANGED <<pc, sec, cur, projects, NotProjVars>>

\* No entry open, a title pending, a time-only line: open the entry.
ParseProjectsPendingTime ==
    /\ InLoop /\ ProjBranch(cur, pending_title, sec[i]) = "pending_time"
    /\ projects' = push(projects, cur)
    /\ cur' = Some([title |-> Val(pending_title), time |-> strip(sec[i]),
                    bullets |-> <<>>])
    /\ pending_title' = None
    /\ i' = i + 1
    /\ UNCHANGED <<pc, sec, NotProjVars>>

\* An entry open and a bullet line: a new bullet.
ParseProjectsBullet ==
    /\ InLoop /\ ProjBranch(cur, pending_title, sec[i]) = "bullet"
    /\ cur' = append_bullet(cur, Val(BULLET_RE_match(strip(sec[i]))))
    /\ i' = i + 1
    /\ UNCHANGED <<pc, sec, pending_title, projects, NotProjVars>>

\* Anything else: drop the pending title, continue the last bullet.
ParseProjectsWrap ==
    /\ InLoop /\ ProjBranch(cur, pending_title, sec[i]) = "wrap"
    /\ pending_title' = IF cur = None /\ Truthy(pending_title)
                            /\ ~is_time_only_line(strip(sec[i]))
                         THEN None ELSE pending_title
    /\ cur' = IF cur = None THEN None ELSE wrap_line(cur, strip(sec[i]))
    /\ i' = i + 1
    /\ UNCHANGED <<pc, sec, projects, NotProjVars>>

\* The push() after the loop, and the return.
ParseProjectsReturn ==
    /\ pc = "loop" /\ sec # <<>> /\ i > Len(sec)
    /\ projects' = push(projects, cur)
    /\ cur' = None
    /\ pc' = "done"
    /\ UNCHANGED <<sec, i, pending_title, NotProjVars>>

NextProjects ==
    \/ ParseProjectsNoSection
    \/ ParseProjectsDateLine
    \/ ParseProjectsHoldTitle
    \/ ParseProjectsPendingTime
    \/ ParseProjectsBullet
    \/ ParseProjectsWrap
    \/ ParseProjectsReturn

SpecProjects == InitProjects /\ [][NextProjects]_vars

----------------------------------------------------------------------------
(* Claims about parse_projects *)

\* C1: no entry of the list built by parse_projects has an empty title, an
\* empty time and an empty bullets list all at once.
C1_NoEmptyEntry ==
    \A k \in 1..Len(projects) :
        ~(projects[k].title = <<>> /\ projects[k].time = <<>>
          /\ projects[k].bullets = <<>>)

\* An entry that push() kept on the strength of its time alone.
C1_Witness ==
    /\ pc = "done"
    /\ \E k \in 1..Len(projects) :
          projects[k].title = <<>> /\ projects[k].bullets = <<>>

\* A loop iteration of parse_projects is being taken on line sec[i].
LoopIteration == pc = "loop" /\ i <= Len(sec) /\ i' = i + 1

HasDateRange(ln) == \E k \in 1..Len(ln) : DateRangeEndAt(ln, k) # 0

\* The line is a marker (black square, hyphen or star) followed by text.
BulletMarked(ln) == Len(ln) >= 2 /\ ln[1] \in BulletMarks /\ strip(Tail(ln)) # <<>>

MarkerStripped(ln) == strip(Tail(ln))

OpenBullets == Val(cur).bullets

NewBullet(txt) ==
    /\ cur' # None
    /\ Val(cur)' = [Val(cur) EXCEPT !.bullets = Append(OpenBullets, txt)]
    /\ projects' = projects

Continued(ln) ==
    /\ cur' # None
    /\ Val(cur)' = [Val(cur) EXCEPT !.bullets =
           IF OpenBullets = <<>> THEN <<ln>>
           ELSE [OpenBullets EXCEPT ![Len(OpenBullets)] = @ \o <<" ">> \o ln]]
    /\ projects' = projects

\* C7: with a title pending and no entry open, a bare date range line opens
\* an entry whose title is the pending title and whose time is that range,
\* and clears the pending title.
C7_PendingTitleTaken ==
    [][(LoopIteration /\ cur = None /\ Truthy(pending_title)
          /\ Val(pending_title)[1] \notin BulletMarks
          /\ DATE_RANGE_RE_fullmatch(sec[i]))
       => /\ cur' = Some([title |-> Val(pending_title), time |-> sec[i],
                          bullets |-> <<>>])
          /\ pending_title' = None]_vars

Scenario2 ==
    << FoodApp \o <<" ">> \o DateHyphen,
       <<Bullet, " ", "built", " ", "a", " ", "thing">>,
       <<"continued", " ", "description">> >>

Scenario2Result ==
    << [title |-> FoodApp, time |-> DateHyphen,
        bullets |-> << <<"built", " ", "a", " ", "thing", " ",
                         "continued", " ", "description">> >>] >>

\* C8: while an entry is open every bullet-marked line appends its
\* marker-stripped text as a new bullet, every unmarked line without a date
\* range continues the last bullet (or seeds the first), and scenario 2 gives
\* the one expected project.
C8_BulletsAndWraps ==
    [][/\ (LoopIteration /\ cur # None /\ BulletMarked(sec[i]))
            => NewBullet(MarkerStripped(sec[i]))
       /\ (LoopIteration /\ cur # None /\ ~BulletMarked(sec[i])
             /\ ~HasDateRange(sec[i]))
            => Continued(sec[i])
       /\ (pc' = "done" /\ sec = Scenario2) => projects' = Scenario2Result]_vars

\* C10: once an entry is open the parser stays in the entry-open state until
\* the end of the section, never holds a pending title again, and puts every
\* later line without a date range into the open entry's bullets; a pending
\* title exists only before the first date range line.
C10_NeverBackToNoEntry ==
    [][/\ (LoopIteration /\ cur # None)
            => /\ cur' # None
               /\ pending_title = None /\ pending_title' = None
               /\ ~HasDateRange(sec[i])
                    => \/ NewBullet(MarkerStripped(sec[i]))
                       \/ Continued(sec[i])
       /\ (pending_title' # None)
            => \A k \in 1..(i' - 1) : ~HasDateRange(sec[k])]_vars

\* A plain text line, which would be a title candidate with no entry open,
\* has been consumed while an entry was open.
C10_Witness ==
    /\ pc = "loop" /\ i = 3 /\ cur # None
    /\ HasDateRange(sec[1]) /\ sec[2] = FoodApp
    /\ OpenBullets = <<FoodApp>>

----------------------------------------------------------------------------
(* preprocess_lines as a state machine *)

RawLines ==
    { <<"SUMMARY", " ", "EDUCATION", " ", "x">>,
      <<"a", " ", "SUMMARY", " ", Bullet, " ", "b">>,
      <<"a", " ", Bullet, " ", "SUMMARY", " ", "b">>,
      <<"x", " ", Bullet, " ", "a", " ", Bullet, " ", "b">>,
      <<"Technical", " ", "Skills">>,
      <<"technical", " ", " ", "skills", " ", "y">>,
      <<"SUMMARY">>,
      <<"x">>,
      <<" ", "x", " ">>,
      <<"(", ")">>,
      <<>> }

InitPreprocess ==
    /\ pc = "first_loop"
    /\ lines \in SeqUpTo(RawLines, MaxRaw)
    /\ i = 1
    /\ out = <<>>
    /\ out2 = <<>>
    /\ SliceIdle /\ MainIdle /\ ProjIdle /\ ContactIdle /\ SkillIdle /\ EduIdle

NotPreVars == <<sliceVars, mainVars, projVars, contactVars, skillVars, eduVars>>

\* The body of the first loop applied to lines[i].
PreLoop ==
    /\ out' = out \o PreSplit(lines[i])
    /\ i' = i + 1
    /\ UNCHANGED <<pc, lines, out2, NotPreVars>>

InFirstLoop == pc = "first_loop" /\ i <= Len(lines)

PreprocessSkipLine == InFirstLoop /\ PreBranch(lines[i]) = "skip" /\ PreLoop
PreprocessSplitBullets == InFirstLoop /\ PreBranch(lines[i]) = "bullets" /\ PreLoop
PreprocessSplitHeader == InFirstLoop /\ PreBranch(lines[i]) = "header" /\ PreLoop
PreprocessKeepLine == InFirstLoop /\ PreBranch(lines[i]) = "keep" /\ PreLoop

\* The second loop over out, and the return of out2.
PreprocessCleanup ==
    /\ pc = "first_loop" /\ i > Len(lines)
    /\ out2' = PreCleanup(out, None)
    /\ pc' = "done"
    /\ UNCHANGED <<i, lines, out, NotPreVars>>

NextPreprocess ==
    \/ PreprocessSkipLine
    \/ PreprocessSplitBullets
    \/ PreprocessSplitHeader
    \/ PreprocessKeepLine
    \/ PreprocessCleanup

SpecPreprocess == InitPreprocess /\ [][NextPreprocess]_vars

\* C2: preprocess_lines is idempotent: a second pass over its own output
\* changes nothing.
C2_Idempotent == pc = "done" => preprocess_lines(out2) = out2

----------------------------------------------------------------------------
(* Section slicing *)

is_any_header_line(line) == norm_key(line) \in SECTION_KEYS

\* A faulty variant that returns the last matching line.
find_header_indexLast(ls, hdr) ==
    LET hits == {k \in 1..Len(ls) : norm_key(ls[k]) = norm_key(hdr)}
    IN  IF hits = {} THEN -1
        ELSE (CHOOSE k \in hits : \A j \in hits : j <= k) - 1

\* 0-based index of the first line whose key equals the header's, else -1.
RECURSIVE FindFrom(_, _, _)
FindFrom(ls, target, k) ==
    IF k > Len(ls) THEN -1
    ELSE IF norm_key(ls[k]) = target THEN k - 1
    ELSE FindFrom(ls, target, k + 1)

find_header_index(ls, hdr) == FindFrom(ls, norm_key(hdr), 1)

\* The for loop of slice_section: 0-based index of the first header line
\* at or after 0-based index j, len(lines) when there is none.
RECURSIVE SliceEnd(_, _)
SliceEnd(ls, j) ==
    IF j >= Len(ls) THEN Len(ls)
    ELSE IF is_any_header_line(ls[j + 1]) THEN j
    ELSE SliceEnd(ls, j + 1)

slice_section(ls, hdr) ==
    LET start == find_header_index(ls, hdr)
    IN  IF start < 0 THEN <<>>
        ELSE SubSeq(ls, start + 2, SliceEnd(ls, start + 1))

SliceLines ==
    { <<"SUMMARY">>,
      <<"Technical", " ", "Skills">>,
      <<"TECHNICAL", "-", "SKILLS">>,
      <<"skills", ":">>,
      <<"PROJECTS">>,
      <<"x">>,
      <<"my", " ", "skills">> }

HeaderNames ==
    Range(SECTION_HEADERS) \cup {<<"Technical", " ", "Skills">>, <<"Awards">>}

InitSlice ==
    /\ pc = "find"
    /\ lines \in SeqUpTo(SliceLines, MaxLines)
    /\ header \in HeaderNames
    /\ i = -1
    /\ result = <<>>
    /\ PreIdle /\ MainIdle /\ ProjIdle /\ ContactIdle /\ SkillIdle /\ EduIdle

NotSliceVars == <<preVars, mainVars, projVars, contactVars, skillVars, eduVars>>

\* start = find_header_index(lines, header)
SliceFindHeader ==
    /\ pc = "find"
    /\ i' = find_header_index(lines, header)
    /\ pc' = "found"
    /\ UNCHANGED <<lines, header, result, NotSliceVars>>

\* if start < 0: return []
SliceHeaderAbsent ==
    /\ pc = "found" /\ i < 0
    /\ result' = <<>>
    /\ pc' = "done"
    /\ UNCHANGED <<i, lines, header, NotSliceVars>>

\* The scan for the next header and the return of lines[start + 1: end].
SliceReturn ==
    /\ pc = "found" /\ i >= 0
    /\ result' = SubSeq(lines, i + 2, SliceEnd(lines, i + 1))
    /\ pc' = "done"
    /\ UNCHANGED <<i, lines, header, NotSliceVars>>

NextSlice == SliceFindHeader \/ SliceHeaderAbsent \/ SliceReturn

SpecSlice == InitSlice /\ [][NextSlice]_vars

Matches(k) == norm_key(lines[k]) = norm_key(header)
IsHeaderAt(k) == norm_key(lines[k]) \in SECTION_KEYS
Min(S) == CHOOSE k \in S : \A j \in S : k <= j

\* C3: slice_section returns the lines strictly after the first line that
\* matches the requested header and strictly before the next line that
\* matches any header (or the end of input); the result holds no header
\* line, is empty when two headers are adjacent, and is empty when the
\* requested header is absent.
C3_SliceIsSection ==
    pc = "done" =>
        LET hits == {k \in 1..Len(lines) : Matches(k)}
        IN  IF hits = {} THEN result = <<>>
            ELSE LET first == Min(hits)
                     later == {k \in (first + 1)..Len(lines) : IsHeaderAt(k)}
                     stop == IF later = {} THEN Len(lines) + 1 ELSE Min(later)
                 IN  /\ result = [k \in 1..(stop - first - 1) |-> lines[first + k]]
                     /\ \A k \in 1..Len(result) : norm_key(result[k]) \notin SECTION_KEYS
                     /\ (first < Len(lines) /\ IsHeaderAt(first + 1)) => result = <<>>

\* A section with content, closed by a later header written in another case
\* and punctuation, after an earlier non-matching header.
C3_Witness ==
    /\ pc = "done"
    /\ header = <<"SKILLS">>
    /\ lines = << <<"skills", ":">>, <<"x">>, <<"Technical", " ", "Skills">> >>
    /\ result = << <<"x">> >>

----------------------------------------------------------------------------
(* main: normalize_text, then build_structured *)

CR == "\r"

\* Atoms that are a single character long.
OneCharWords == {"a", "b", "x", "y"}

\* text.replace("\r\n", "\n").replace("\r", "\n")
RECURSIVE UnifyNewlines(_)
UnifyNewlines(t) ==
    IF t = <<>> THEN <<>>
    ELSE IF Head(t) = CR
         THEN <<NL>> \o UnifyNewlines(IF Len(t) >= 2 /\ t[2] = NL
                                      THEN SubSeq(t, 3, Len(t)) ELSE Tail(t))
         ELSE <<Head(t)>> \o UnifyNewlines(Tail(t))

\* re.sub(r"(\w)-\n(\w)", r"\1-\2", text); used is TRUE when the first
\* character of t is the \2 of the previous match.
RECURSIVE Dehyphenate(_, _)
Dehyphenate(t, used) ==
    IF t = <<>> THEN <<>>
    ELSE IF /\ Len(t) >= 4
            /\ IsWord(t[1]) /\ ~(used /\ t[1] \in OneCharWords)
            /\ t[2] = "-" /\ t[3] = NL /\ IsWord(t[4])
         THEN <<t[1], "-">> \o Dehyphenate(SubSeq(t, 4, Len(t)), TRUE)
         ELSE <<Head(t)>> \o Dehyphenate(Tail(t), FALSE)

\* for b in [...]: text = text.replace(b, BLACK SQUARE)
CanonBullets(t) == [k \in 1..Len(t) |-> IF t[k] \in BulletGlyphs THEN Bullet ELSE t[k]]

\* "\n".join([ln.rstrip() for ln in text.split("\n")])
RStripLines(t) ==
    LET ls == Split(t, {NL})
    IN  Join([k \in 1..Len(ls) |-> RStrip(ls[k], Whitespace)], <<NL>>)

\* re.sub(r"\n{3,}", "\n\n", text)
RECURSIVE SquashBlankLines(_)
SquashBlankLines(t) ==
    IF t = <<>> THEN <<>>
    ELSE IF Head(t) = NL
         THEN LET rest == LStrip(t, {NL})
                  n == Len(t) - Len(rest)
              IN  (IF n >= 3 THEN <<NL, NL>> ELSE [k \in 1..n |-> NL])
                     \o SquashBlankLines(rest)
         ELSE <<Head(t)>> \o SquashBlankLines(Tail(t))

normalize_text(t) ==
    IF t = <<>> THEN <<>>
    ELSE strip(SquashBlankLines(RStripLines(CanonBullets(
                 Dehyphenate(UnifyNewlines(t), FALSE)))))

RECURSIVE CollapseNonEmpty(_)
CollapseNonEmpty(ls) ==
    IF ls = <<>> THEN <<>>
    ELSE IF collapse_ws(Head(ls)) # <<>>
         THEN <<collapse_ws(Head(ls))>> \o CollapseNonEmpty(Tail(ls))
         ELSE CollapseNonEmpty(Tail(ls))

lines_nonempty(t) == CollapseNonEmpty(Split(t, {NL}))

RECURSIVE ProjFold(_, _)
ProjFold(st, ls) ==
    IF ls = <<>> THEN st ELSE ProjFold(ProjStep(st, Head(ls)), Tail(ls))

parse_projects(ls) ==
    LET s == slice_section(ls, <<"PROJECTS">>)
        st == ProjFold([projects |-> <<>>, cur |-> None, pending_title |-> None], s)
    IN  IF s = <<>> THEN <<>> ELSE push(st.projects, st.cur)

TextLines ==
    { FoodApp \o <<" ">> \o DateSpaced,
      FoodApp \o <<" ">> \o DateEnDash,
      FoodApp \o <<" ">> \o DateEmDash,
      <<DotGlyph, " ", "built", " ", "a", " ", "thing", " ">>,
      <<"data", "-">>,
      <<"intensive", CR>>,
      <<"x", NL, NL>>,
      <<>> }

InitMain ==
    /\ pc = "main"
    /\ \E body \in SeqUpTo(TextLines, MaxText) :
          raw = Join(<< <<"PROJECTS">> >> \o body, <<NL>>)
    /\ text = raw
    /\ projects = <<>>
    /\ sec = <<>> /\ cur = None /\ pending_title = None
    /\ i = 0 /\ lines = <<>>
    /\ SliceIdle /\ PreIdle /\ ContactIdle /\ SkillIdle /\ EduIdle

NotMainVars == <<i, sliceVars, preVars, contactVars, skillVars, eduVars>>

\* raw = normalize_text(raw)
MainNormalize ==
    /\ pc = "main"
    /\ text' = normalize_text(raw)
    /\ pc' = "build"
    /\ UNCHANGED <<raw, lines, projVars, NotMainVars>>

\* build_structured: ln = preprocess_lines(lines_nonempty(raw_text)), then
\* projects = parse_projects(ln).
BuildStructured ==
    /\ pc = "build"
    /\ lines' = preprocess_lines(lines_nonempty(text))
    /\ projects' = parse_projects(lines')
    /\ pc' = "done"
    /\ UNCHANGED <<raw, text, sec, cur, pending_title, NotMainVars>>

NextMain == MainNormalize \/ BuildStructured

SpecMain == InitMain /\ [][NextMain]_vars

AcceptedDashes == {"-", EnDash, EmDash}

TitledRange(d) == FoodApp \o <<" ", "July", " ", "2024", " ", d, " ", "Aug", " ", "2024">>

\* C5: a line 'Title Month YYYY <dash> Month YYYY' yields a project entry
\* with that title and that time for the hyphen, the en-dash and the
\* em-dash, also when it reaches parse_projects through normalize_text and
\* preprocess_lines.
C5_AllDashesRecognized ==
    pc = "done" =>
        \A d \in AcceptedDashes :
            (\E k \in 1..Len(Split(raw, {NL})) : Split(raw, {NL})[k] = TitledRange(d))
            => \E k \in 1..Len(projects) :
                  /\ projects[k].title = FoodApp
                  /\ projects[k].time = <<"July", " ", "2024", " ", d, " ", "Aug", " ", "2024">>

----------------------------------------------------------------------------
(* Parse basics: the contact line *)

DEFAULT_GITHUB == <<"https", ":", "/", "/", "github", ".", "com", "/", "forestzs">>

\* Atoms made of decimal digits only.
DigitAtoms == {"555", "123", "4567", "90007"} \cup Years

\* len() of one atom in characters; every atom not listed is one character.
AtomLen(a) ==
    CASE a \in {"in", "CA", "BS", "MS", "of"} -> 2
      [] a \in {"555", "123", "com", "Los", "USC", "Doe", "May", "Aug", "App"} -> 3
      [] a \in {"4567", "jane", "Jane", "July", "2024", "2025", "2026", "Food"} -> 4
      [] a \in {"90007", "https", "extra"} -> 5
      [] a \in {"github"} -> 6
      [] a \in {"Angeles", "SiChuan", "College", "Science"} -> 7
      [] a \in {"linkedin", "LinkedIn", "forestzs", "Computer"} -> 8
      [] a \in {"University", "California"} -> 10
      [] OTHER -> 1

RECURSIVE StrLen(_)
StrLen(s) == IF s = <<>> THEN 0 ELSE AtomLen(Head(s)) + StrLen(Tail(s))

\* Last index of the maximal run of atoms of class C that starts at k
\* (k - 1 when s[k] is not in the class).
RECURSIVE RunEnd(_, _, _)
RunEnd(s, k, C) ==
    IF k <= Len(s) /\ s[k] \in C THEN RunEnd(s, k + 1, C) ELSE k - 1

PhoneClass == DigitAtoms \cup {"-", " ", NL, "(", ")"}

\* Last index of a PHONE_RE match whose first digit is atom k, 0 when none.
PhoneEndAt(s, k) ==
    IF k < 1 \/ k > Len(s) \/ s[k] \notin DigitAtoms THEN 0
    ELSE LET r == RunEnd(s, k, PhoneClass)
             digits == {j \in k..r : s[j] \in DigitAtoms}
             last == CHOOSE j \in digits : \A m \in digits : m <= j
         IN  IF StrLen(SubSeq(s, k, last)) >= 9 THEN last ELSE 0

\* PHONE_RE.search: Some(group 1) or None.
PHONE_RE_search(s) ==
    LET starts == {k \in 1..Len(s) : PhoneEndAt(s, k) # 0}
    IN  IF starts = {} THEN None
        ELSE LET k == CHOOSE k \in starts : \A j \in starts : k <= j
                 from == IF k > 1 /\ s[k - 1] = "+" THEN k - 1 ELSE k
             IN  Some(SubSeq(s, from, PhoneEndAt(s, k)))

EmailLocalPunct == {".", "_", "%", "+", "-"}
EmailDomainPunct == {".", "-"}

IsAlpha(a) == IsWord(a) /\ a \notin DigitAtoms

\* First index of the maximal run of local-part atoms that ends at k.
RECURSIVE LocalStart(_, _)
LocalStart(s, k) ==
    IF k >= 1 /\ (IsWord(s[k]) \/ s[k] \in EmailLocalPunct)
    THEN LocalStart(s, k - 1) ELSE k + 1

RECURSIVE DomainEnd(_, _)
DomainEnd(s, k) ==
    IF k <= Len(s) /\ (IsWord(s[k]) \/ s[k] \in EmailDomainPunct)
    THEN DomainEnd(s, k + 1) ELSE k - 1

\* Last index of an EMAIL_RE match around the "@" at index at, 0 when none.
EmailEndAt(s, at) ==
    IF s[at] # "@" \/ LocalStart(s, at - 1) > at - 1 THEN 0
    ELSE LET r == DomainEnd(s, at + 1)
             tlds == {j \in (at + 3)..r :
                        s[j - 1] = "." /\ IsAlpha(s[j]) /\ AtomLen(s[j]) >= 2}
         IN  IF tlds = {} THEN 0
             ELSE CHOOSE j \in tlds : \A m \in tlds : m <= j

\* EMAIL_RE.search: Some(group 1) or None.
EMAIL_RE_search(s) ==
    LET ats == {k \in 1..Len(s) : EmailEndAt(s, k) # 0}
    IN  IF ats = {} THEN None
        ELSE LET k == CHOOSE k \in ats : \A j \in ats : k <= j
             IN  Some(SubSeq(s, LocalStart(s, k - 1), EmailEndAt(s, k)))

\* Last index of the maximal run of atoms other than blanks and "|" from k.
RECURSIVE UrlBodyEnd(_, _)
UrlBodyEnd(s, k) ==
    IF k <= Len(s) /\ s[k] \notin (Whitespace \cup {"|"})
    THEN UrlBodyEnd(s, k + 1) ELSE k - 1

\* Last index of a URL_RE match that starts at k, 0 when none.
UrlEndAt(s, k) ==
    IF /\ k + 4 <= Len(s)
       /\ Lower(s[k]) \in {"http", "https"}
       /\ s[k + 1] = ":" /\ s[k + 2] = "/" /\ s[k + 3] = "/"
       /\ UrlBodyEnd(s, k + 4) >= k + 4
    THEN UrlBodyEnd(s, k + 4) ELSE 0

\* URL_RE.findall from index k on: the matches, left to right.
RECURSIVE UrlFindAll(_, _)
UrlFindAll(s, k) ==
    IF k > Len(s) THEN <<>>
    ELSE IF UrlEndAt(s, k) # 0
         THEN <<SubSeq(s, k, UrlEndAt(s, k))>> \o UrlFindAll(s, UrlEndAt(s, k) + 1)
         ELSE UrlFindAll(s, k + 1)

URL_RE_findall(s) == UrlFindAll(s, 1)
URL_RE_search(s) == URL_RE_findall(s) # <<>>

\* needle in u.lower(), for a needle "<name>.com"
ContainsDotCom(u, name) ==
    \E k \in 1..(Len(u) - 2) :
        Lower(u[k]) = name /\ u[k + 1] = "." /\ Lower(u[k + 2]) = "com"

\* The for loop over urls (lines 308-313).
RECURSIVE ClassifyUrls(_, _)
ClassifyUrls(c, urls) ==
    IF urls = <<>> THEN c
    ELSE LET u == Head(urls)
             c2 == IF ContainsDotCom(u, "linkedin") THEN [c EXCEPT !.linkedin = strip(u)]
                   ELSE IF ContainsDotCom(u, "github") THEN [c EXCEPT !.github = strip(u)]
                   ELSE c
         IN  ClassifyUrls(c2, Tail(urls))

\* The for loop over reversed(parts) (lines 316-326): the location.
RECURSIVE PickLocation(_, _)
PickLocation(parts, k) ==
    IF k < 1 THEN <<>>
    ELSE LET q == parts[k]
         IN  IF \/ q = <<>>
                \/ EMAIL_RE_search(q) # None
                \/ URL_RE_search(q)
                \/ (PHONE_RE_search(q) # None /\ StrLen(q) <= 25)
             THEN PickLocation(parts, k - 1)
             ELSE q

EmptyContact ==
    [phone |-> <<>>, email |-> <<>>, linkedin |-> <<>>, github |-> <<>>,
     location |-> <<>>]

PhoneSeg == <<"555", "-", "123", "-", "4567">>
EmailSeg == <<"jane", "@", "x", ".", "com">>
LinkedinBare == <<"linkedin", ".", "com", "/", "in", "/", "jane">>
LinkedinUrl == <<"https", ":", "/", "/">> \o LinkedinBare
GithubUrl == <<"https", ":", "/", "/", "github", ".", "com", "/", "jane">>
LocationSeg == <<"Los", " ", "Angeles", ",", " ", "CA">>
ZipSeg == <<"CA", " ", "90007">>

ContactSegs ==
    {PhoneSeg, EmailSeg, LinkedinBare, LinkedinUrl, GithubUrl, LocationSeg, ZipSeg}

JaneDoe == <<"Jane", " ", "Doe">>

InitContact ==
    /\ pc = "contact"
    /\ \/ lines = <<>>
       \/ lines = <<JaneDoe>>
       \/ \E segs \in SeqUpTo(ContactSegs, MaxSegs) :
             lines = <<JaneDoe, Join(segs, <<" ", "|", " ">>)>>
    /\ contact = EmptyContact
    /\ i = 0
    /\ SliceIdle /\ PreIdle /\ MainIdle /\ ProjIdle /\ SkillIdle /\ EduIdle

NotContactVars == <<i, lines, sliceVars, preVars, mainVars, projVars, skillVars, eduVars>>

\* if len(lines) < 2: github defaulted, return
ContactNoLine ==
    /\ pc = "contact" /\ Len(lines) < 2
    /\ contact' = [contact EXCEPT !.github = DEFAULT_GITHUB]
    /\ pc' = "done"
    /\ UNCHANGED NotContactVars

ContactPhone ==
    /\ pc = "contact" /\ Len(lines) >= 2
    /\ contact' = IF PHONE_RE_search(lines[2]) # None
                  THEN [contact EXCEPT !.phone = strip(Val(PHONE_RE_search(lines[2])))]
                  ELSE contact
    /\ pc' = "email"
    /\ UNCHANGED NotContactVars

ContactEmail ==
    /\ pc = "email"
    /\ contact' = IF EMAIL_RE_search(lines[2]) # None
                  THEN [contact EXCEPT !.email = strip(Val(EMAIL_RE_search(lines[2])))]
                  ELSE contact
    /\ pc' = "urls"
    /\ UNCHANGED NotContactVars

ContactUrls ==
    /\ pc = "urls"
    /\ contact' = ClassifyUrls(contact, URL_RE_findall(lines[2]))
    /\ pc' = "location"
    /\ UNCHANGED NotContactVars

ContactLocation ==
    /\ pc = "location"
    /\ LET pieces == Split(lines[2], {"|"})
           parts == [k \in 1..Len(pieces) |-> strip(pieces[k])]
       IN  contact' = [contact EXCEPT !.location = PickLocation(parts, Len(parts))]
    /\ pc' = "github"
    /\ UNCHANGED NotContactVars

\* if not contact["github"]: default; return contact
ContactReturn ==
    /\ pc = "github"
    /\ contact' = IF contact.github = <<>>
                  THEN [contact EXCEPT !.github = DEFAULT_GITHUB] ELSE contact
    /\ pc' = "done"
    /\ UNCHANGED NotContactVars

NextContact ==
    \/ ContactNoLine \/ ContactPhone \/ ContactEmail
    \/ ContactUrls \/ ContactLocation \/ ContactReturn

SpecContact == InitContact /\ [][NextContact]_vars

\* C4: for a second line 'phone | email | <segment containing linkedin.com>
\* | location' with no github segment, the contact has phone, email and
\* linkedin equal to their segments, the location segment as location and
\* the default github; and the github field is never empty.
C4_ContactScenario ==
    pc = "done" =>
        /\ contact.github # <<>>
        /\ \A seg \in {LinkedinBare, LinkedinUrl} :
              (Len(lines) >= 2 /\ lines[2] = Join(<<PhoneSeg, EmailSeg, seg, LocationSeg>>,
                                                  <<" ", "|", " ">>))
              => contact = [phone |-> PhoneSeg, email |-> EmailSeg, linkedin |-> seg,
                            github |-> DEFAULT_GITHUB, location |-> LocationSeg]

----------------------------------------------------------------------------
(* Skills *)

\* re.split(r"[;,]", s), each part stripped, empty parts dropped.
split_csvish(s) == StripNonEmpty(Split(s, {";", ","}))

\* A faulty variant that compares tokens case-sensitively.
RECURSIVE UniqueFromExactCase(_, _)
UniqueFromExactCase(seq, seen) ==
    IF seq = <<>> THEN <<>>
    ELSE LET t == strip(Head(seq))
         IN  IF t = <<>> \/ t \in seen THEN UniqueFromExactCase(Tail(seq), seen)
             ELSE <<t>> \o UniqueFromExactCase(Tail(seq), seen \cup {t})

\* The loop of unique_preserve with its seen set.
RECURSIVE UniqueFrom(_, _)
UniqueFrom(seq, seen) ==
    IF seq = <<>> THEN <<>>
    ELSE LET t == strip(Head(seq))
             k == LowerStr(t)
         IN  IF t = <<>> \/ k \in seen THEN UniqueFrom(Tail(seq), seen)
             ELSE <<t>> \o UniqueFrom(Tail(seq), seen \cup {k})

unique_preserve(seq) == UniqueFrom(seq, {})

\* The label patterns of parse_skills (lines 511-515): each alternative as
\* its lower-cased atoms, blanks between them being optional.
LanguagesLabels == {<<"language">>, <<"languages">>}
FrameworksLabels ==
    {<<"frameworks", "&", "libraries">>, <<"frameworks", "/", "libraries">>,
     <<"frameworks">>, <<"libraries">>}
DatabasesLabels ==
    {<<"databases", "&", "cache">>, <<"databases", "&", "caching">>,
     <<"databases">>, <<"database">>}
CloudLabels == {<<"cloud", "&", "devops">>, <<"cloud">>, <<"devops">>}
ToolsLabels == {<<"tools", "&", "testing">>, <<"tools">>, <<"testing">>}

\* Index of the last atom of label lab matched at k with optional blanks
\* between its atoms, 0 when it does not match.
RECURSIVE LabelEndAt(_, _, _)
LabelEndAt(t, k, lab) ==
    IF k > Len(t) \/ Lower(t[k]) # Head(lab) THEN 0
    ELSE IF Len(lab) = 1 THEN k
    ELSE LabelEndAt(t, SkipWs(t, k + 1), Tail(lab))

\* Index of the first atom of group 1 when the pattern of grab() matches
\* with its (?:^|\n) at the line that starts at k, 0 when it does not.
GrabValueAt(t, k, labels) ==
    LET a == SkipWs(t, k)
        b == IF a <= Len(t) /\ t[a] \in BulletMarks THEN a + 1 ELSE a
        c == SkipWs(t, b)
        ends == {LabelEndAt(t, c, lab) : lab \in labels} \ {0}
        ok == {e \in ends : /\ SkipWs(t, e + 1) <= Len(t)
                            /\ t[SkipWs(t, e + 1)] = ":"
                            /\ SkipWs(t, SkipWs(t, e + 1) + 1) <= Len(t)}
    IN  IF ok = {} THEN 0
        ELSE LET e == CHOOSE e \in ok : TRUE
             IN  SkipWs(t, SkipWs(t, e + 1) + 1)

\* grab(label_pattern) over the joined section text t.
grab(t, labels) ==
    LET starts == {k \in 1..Len(t) :
                     (k = 1 \/ t[k - 1] = NL) /\ GrabValueAt(t, k, labels) # 0}
    IN  IF starts = {} THEN <<>>
        ELSE LET k == CHOOSE k \in starts : \A j \in starts : k <= j
                 v == GrabValueAt(t, k, labels)
                 val == strip(SubSeq(t, v, RunEnd(t, v, {x \in Range(t) : x # NL})))
             IN  IF val # <<>> THEN split_csvish(val) ELSE <<>>

EmptySkills == [languages |-> <<>>, frameworks |-> <<>>, tools |-> <<>>]

SkillLines ==
    { <<"Languages", ":", " ", "Python", ",", " ", "Go", ",", "python">>,
      <<"Frameworks", " ", "&", " ", "Libraries", ":", " ", "React">>,
      <<"Databases", ":", " ", "Redis", ",", " ", "Python">>,
      <<"Cloud", " ", "&", " ", "DevOps", " ", ":", " ", "AWS", ",", " ", "redis">>,
      <<Bullet, " ", "TOOLS", ":", " ", "Git", ",", " ", "aws", ";", " ", "GIT", ",">>,
      <<"Languages", ":">>,
      <<"x">> }

SkillHeads ==
    { <<>>,
      << <<"TECHNICAL", " ", "SKILLS">> >>,
      << <<"Skills">> >>,
      << <<"TECHNICAL", " ", "SKILLS">>, <<"SKILLS">> >>,
      << <<"SUMMARY">> >> }

InitSkills ==
    /\ pc = "skills"
    /\ \E head \in SkillHeads, body \in SeqUpTo(SkillLines, MaxSkillLines) :
          lines = head \o body
    /\ text = <<>>
    /\ raw = <<>>
    /\ grabbed = <<>>
    /\ skills = <<>>
    /\ i = 0
    /\ SliceIdle /\ PreIdle /\ ProjIdle /\ ContactIdle /\ EduIdle

NotSkillVars == <<i, lines, raw, sliceVars, preVars, projVars, contactVars, eduVars>>

\* The section parse_skills works on: TECHNICAL SKILLS, else SKILLS.
SkillsSection ==
    IF slice_section(lines, <<"TECHNICAL", " ", "SKILLS">>) # <<>>
    THEN slice_section(lines, <<"TECHNICAL", " ", "SKILLS">>)
    ELSE slice_section(lines, <<"SKILLS">>)

\* if not sec: return the three empty lists
SkillsNoSection ==
    /\ pc = "skills" /\ SkillsSection = <<>>
    /\ skills' = EmptySkills
    /\ pc' = "done"
    /\ UNCHANGED <<text, grabbed, NotSkillVars>>

\* text = "\n".join(sec)
SkillsJoin ==
    /\ pc = "skills" /\ SkillsSection # <<>>
    /\ text' = Join(SkillsSection, <<NL>>)
    /\ pc' = "grab"
    /\ UNCHANGED <<skills, grabbed, NotSkillVars>>

\* The five grab() calls.
SkillsGrab ==
    /\ pc = "grab"
    /\ grabbed' = [languages |-> grab(text, LanguagesLabels),
                   frameworks |-> grab(text, FrameworksLabels),
                   db |-> grab(text, DatabasesLabels),
                   cloud |-> grab(text, CloudLabels),
                   tools_testing |-> grab(text, ToolsLabels)]
    /\ pc' = "unique"
    /\ UNCHANGED <<text, skills, NotSkillVars>>

SkillsReturn ==
    /\ pc = "unique"
    /\ skills' = [languages |-> unique_preserve(grabbed.languages),
                  frameworks |-> unique_preserve(grabbed.frameworks),
                  tools |-> unique_preserve(grabbed.db \o grabbed.cloud
                                            \o grabbed.tools_testing)]
    /\ pc' = "done"
    /\ UNCHANGED <<text, grabbed, NotSkillVars>>

NextSkills == SkillsNoSection \/ SkillsJoin \/ SkillsGrab \/ SkillsReturn

SpecSkills == InitSkills /\ [][NextSkills]_vars

IsList(x) == DOMAIN x = 1..Len(x)

NoCaseDuplicates(x) ==
    \A a, b \in 1..Len(x) : a < b => LowerStr(x[a]) # LowerStr(x[b])

\* x without the elements that repeat an earlier one ignoring case.
RECURSIVE FirstSeenUpTo(_, _)
FirstSeenUpTo(x, n) ==
    IF n = 0 THEN <<>>
    ELSE IF \E j \in 1..(n - 1) : LowerStr(x[j]) = LowerStr(x[n])
         THEN FirstSeenUpTo(x, n - 1)
         ELSE Append(FirstSeenUpTo(x, n - 1), x[n])

FirstSeen(x) == FirstSeenUpTo(x, Len(x))

\* Some line of the section is '<optional marker> <label> :' for one of the labels.
RECURSIVE WordsOf(_)
WordsOf(ln) ==
    IF ln = <<>> THEN <<>>
    ELSE IF Head(ln) \in Whitespace THEN WordsOf(Tail(ln))
    ELSE <<Lower(Head(ln))>> \o WordsOf(Tail(ln))

LabelFound(labels) ==
    \E k \in 1..Len(SkillsSection) :
        LET w == WordsOf(SkillsSection[k])
            body == IF w # <<>> /\ Head(w) \in BulletMarks THEN Tail(w) ELSE w
        IN  \E lab \in labels :
               /\ Len(body) > Len(lab)
               /\ SubSeq(body, 1, Len(lab)) = lab
               /\ body[Len(lab) + 1] = ":"

\* The tokens written after the first 'label:' of the section, as listed.
TokensOf(labels) == grab(Join(SkillsSection, <<NL>>), labels)

\* C6: parse_skills returns the three lists for every input; a category
\* whose label is not found is empty; no list holds two tokens equal
\* ignoring case, first-seen casing and order are kept; tools is the
\* Databases, Cloud and Tools/Testing tokens in that order with later
\* case-insensitive duplicates removed.
C6_SkillLists ==
    pc = "done" =>
        /\ DOMAIN skills = {"languages", "frameworks", "tools"}
        /\ \A c \in DOMAIN skills : IsList(skills[c]) /\ NoCaseDuplicates(skills[c])
        /\ ~LabelFound(LanguagesLabels) => skills.languages = <<>>
        /\ ~LabelFound(FrameworksLabels) => skills.frameworks = <<>>
        /\ ~LabelFound(DatabasesLabels \cup CloudLabels \cup ToolsLabels)
              => skills.tools = <<>>
        /\ SkillsSection # <<>> =>
              /\ skills.languages = FirstSeen(TokensOf(LanguagesLabels))
              /\ skills.frameworks = FirstSeen(TokensOf(FrameworksLabels))
              /\ skills.tools = FirstSeen(TokensOf(DatabasesLabels)
                                   \o TokensOf(CloudLabels) \o TokensOf(ToolsLabels))

\* Three tool buckets with duplicates across them in another case, and no
\* Languages label.
C6_Witness ==
    /\ pc = "done" /\ SkillsSection # <<>>
    /\ ~LabelFound(LanguagesLabels) /\ skills.languages = <<>>
    /\ Len(grabbed.db \o grabbed.cloud \o grabbed.tools_testing) = 7
    /\ skills.tools = << <<"Redis">>, <<"Python">>, <<"AWS">>, <<"Git">> >>

----------------------------------------------------------------------------
(* Education *)

\* Words of exactly two upper-case letters.
TwoUpper == {"CA", "BS", "MS"}

\* LOC_RE.match: ".+" , a comma, blanks, two upper-case letters and \b.
LOC_RE_match(s) ==
    \E k \in 2..Len(s) :
        /\ s[k] = ","
        /\ SkipWs(s, k + 1) <= Len(s)
        /\ s[SkipWs(s, k + 1)] \in TwoUpper
        /\ (SkipWs(s, k + 1) = Len(s) \/ ~IsWord(s[SkipWs(s, k + 1) + 1]))
        /\ \A j \in 1..SkipWs(s, k + 1) : s[j] # NL

looks_like_location_line(s) ==
    \/ LOC_RE_match(s)
    \/ /\ \E k \in 1..Len(s) : s[k] = ","
       /\ StrLen(s) <= 28
       /\ DATE_RANGE_RE_search(s) = None

\* Which branch of the merge loop line ln takes, given merged so far.
MergeBranch(m, ln) ==
    IF m = <<>> THEN "first"
    ELSE IF looks_like_location_line(ln) /\ m[Len(m)][Len(m[Len(m)])] # ","
         THEN "join"
    ELSE "append"

MergeStep(m, ln) ==
    CASE MergeBranch(m, ln) = "join" ->
             [m EXCEPT ![Len(m)] = @ \o <<" ">> \o ln]
      [] OTHER -> Append(m, ln)

EduLines ==
    { <<"University", " ", "of", " ", "California">>,
      <<"USC", " ", "College">>,
      <<"BS", " ", "Computer", " ", "Science">>,
      <<"extra">>,
      <<"Los", " ", "Angeles", ",", " ", "CA">>,
      <<"(">> }

InitEducation ==
    /\ pc = "education"
    /\ \E body \in SeqUpTo(EduLines, MaxEduLines) :
          lines \in {body, << <<"EDUCATION">> >> \o body,
                     << <<"EDUCATION">> >> \o body \o << <<"SKILLS">>, <<"x">> >>}
    /\ merged = <<>>
    /\ items = <<>>
    /\ i = 0
    /\ SliceIdle /\ PreIdle /\ MainIdle /\ ProjIdle /\ ContactIdle /\ SkillIdle

NotEduVars == <<lines, sliceVars, preVars, mainVars, projVars, contactVars, skillVars>>

EduSection == slice_section(lines, <<"EDUCATION">>)

\* if not sec: return []
EduNoSection ==
    /\ pc = "education" /\ EduSection = <<>>
    /\ pc' = "done"
    /\ UNCHANGED <<i, merged, items, NotEduVars>>

EduStartMerge ==
    /\ pc = "education" /\ EduSection # <<>>
    /\ pc' = "merge" /\ i' = 1
    /\ UNCHANGED <<merged, items, NotEduVars>>

\* The body of the merge loop applied to sec[i].
EduMerge ==
    /\ merged' = MergeStep(merged, EduSection[i])
    /\ i' = i + 1
    /\ UNCHANGED <<pc, items, NotEduVars>>

InMerge == pc = "merge" /\ i <= Len(EduSection)

EduMergeFirst == InMerge /\ MergeBranch(merged, EduSection[i]) = "first" /\ EduMerge
EduMergeJoin == InMerge /\ MergeBranch(merged, EduSection[i]) = "join" /\ EduMerge
EduMergeAppend == InMerge /\ MergeBranch(merged, EduSection[i]) = "append" /\ EduMerge

\* items = [], i = 0 (the index is kept 1-based here)
EduStartPairs ==
    /\ pc = "merge" /\ i > Len(EduSection)
    /\ pc' = "pairs" /\ i' = 1
    /\ UNCHANGED <<merged, items, NotEduVars>>

\* The school is bracket noise: i += 1
EduSkipNoise ==
    /\ pc = "pairs" /\ i <= Len(merged)
    /\ PUNCT_ONLY_RE_match(strip(merged[i])) \/ strip(merged[i]) \in {<<")">>, <<"(">>}
    /\ i' = i + 1
    /\ UNCHANGED <<pc, merged, items, NotEduVars>>

\* The school and the line after it as degree: i += 2
EduPair ==
    /\ pc = "pairs" /\ i <= Len(merged)
    /\ ~(PUNCT_ONLY_RE_match(strip(merged[i])) \/ strip(merged[i]) \in {<<")">>, <<"(">>})
    /\ LET school == strip(merged[i])
           degree == IF i + 1 <= Len(merged) THEN strip(merged[i + 1]) ELSE <<>>
       IN  items' = IF school # <<>>
                    THEN Append(items, [school |-> school, degree |-> degree])
                    ELSE items
    /\ i' = i + 2
    /\ UNCHANGED <<pc, merged, NotEduVars>>

EduReturn ==
    /\ pc = "pairs" /\ i > Len(merged)
    /\ pc' = "done"
    /\ UNCHANGED <<i, merged, items, NotEduVars>>

NextEducation ==
    \/ EduNoSection \/ EduStartMerge
    \/ EduMergeFirst \/ EduMergeJoin \/ EduMergeAppend
    \/ EduStartPairs \/ EduSkipNoise \/ EduPair \/ EduReturn

SpecEducation == InitEducation /\ [][NextEducation]_vars

InstitutionWords == {"University", "College", "Institute"}

\* The line contains an institution word or ends with ', ST'.
InstitutionCue(ln) ==
    \/ \E k \in 1..Len(ln) : ln[k] \in InstitutionWords
    \/ /\ Len(ln) >= 3 /\ ln[Len(ln)] \in TwoUpper
       /\ RStrip(SubSeq(ln, 1, Len(ln) - 1), Whitespace) # <<>>
       /\ RStrip(SubSeq(ln, 1, Len(ln) - 1), Whitespace)
             [Len(RStrip(SubSeq(ln, 1, Len(ln) - 1), Whitespace))] = ","

\* C9: every Education line with an institution cue starts a new entry and
\* is that entry's school, wherever it occurs; the lines after it up to the
\* next such line go to the entry's degree, never to a school field.
C9_SchoolsAreCueLines ==
    (pc = "done" /\ EduSection # <<>> /\ InstitutionCue(EduSection[1])) =>
        [k \in 1..Len(items) |-> items[k].school] = SelectSeq(EduSection, InstitutionCue)

====
